---- MODULE Spec2Model ----
(***************************************************************************)
(* A model of the MDict reader mdict-core.js (mdx/mdd dictionary files).   *)
(*                                                                         *)
(* Spec      the lookup engine of an opened dictionary: LOOKUP.mdx,        *)
(*           LOOKUP.mdd and LOOKUP.mdx.search in scan mode, with the       *)
(*           single-slot key-block cache and @@@LINK= following.           *)
(* SpecOpen  parse_mdict's promise chain from the file head to the lookup  *)
(*           handle.                                                       *)
(* SpecScan  Scanner.readBlock on one data block.                          *)
(*                                                                         *)
(* Strings are sequences of code units (numbers), compared as JavaScript   *)
(* compares strings.  The dictionaries of Spec keep their key blocks and   *)
(* record blocks compressed and their text in a single-byte encoding; the  *)
(* decompressed content of each block is what the model holds.             *)
(***************************************************************************)
EXTENDS Integers, Sequences, FiniteSets, TLC

VARIABLES
  ext,                 \* file extension, selects LOOKUP[ext]
  attrs,               \* dictionary attributes read from the header
  KEY_INDEX,           \* keyword index, one entry per key block
  RECORD_BLOCK_TABLE,  \* (offset_comp, offset_decomp) pairs, N + 1 of them
  KEY_TABLE_ready,     \* KEY_TABLE's ready flag
  KEY_TABLE,           \* KEY_TABLE's arrays: (hash, order) pairs and offsets
  MurmurHash3,         \* the hash library: lower-case string to hash code
  result,              \* what the last call on a table returned
  file,                \* the content of the file that lookups slice
  _last_keys,          \* the key list loaded last, with its pilot word
  calls,               \* the lookup calls (promise chains) of the engine
  tasks,               \* callbacks waiting to run, in issue order
  parse,               \* parse_mdict's progress on a file being opened
  scan                 \* a Scanner and the block it is asked to read

vars == <<ext, attrs, KEY_INDEX, RECORD_BLOCK_TABLE, KEY_TABLE_ready, KEY_TABLE,
          MurmurHash3, result, file, _last_keys, calls, tasks, parse, scan>>

\* the key table and the hash library, where no step loads or uses them
TableUnused == KEY_TABLE = "unused" /\ MurmurHash3 = "unused" /\ result = "unused"
TableUnchanged == UNCHANGED <<KEY_TABLE, MurmurHash3, result>>

(***************************************************************************)
(* Bounds of the model.                                                    *)
(***************************************************************************)
MaxKeys == 3           \* keywords in a dictionary
MaxBlocks == 2         \* key blocks in a dictionary
MaxLinks == 1          \* records that are @@@LINK= redirections
MaxCalls == 10         \* lookup calls alive at once (one top-level, the rest nested)
RecordsPerBlock == 2   \* records stored in one record block

UNDEFINED == -1
MAX_CANDIDATES == 64

(***************************************************************************)
(* Strings.                                                                *)
(***************************************************************************)
Min(a, b) == IF a < b THEN a ELSE b

\* String.prototype.toLowerCase on the code units the model uses
toLowerCase(s) == [i \in DOMAIN s |-> IF s[i] \in 65..90 THEN s[i] + 32 ELSE s[i]]

IsSpace(c) == c \in {9, 10, 11, 12, 13, 32}

RECURSIVE TrimLeft(_)
TrimLeft(s) == IF s # <<>> /\ IsSpace(Head(s)) THEN TrimLeft(Tail(s)) ELSE s

RECURSIVE TrimRight(_)
TrimRight(s) ==
  IF s # <<>> /\ IsSpace(s[Len(s)]) THEN TrimRight(SubSeq(s, 1, Len(s) - 1)) ELSE s

\* String.prototype.trim
trim(s) == TrimRight(TrimLeft(s))

\* s1 < s2 on strings: code unit by code unit, a proper prefix is smaller
StrLess(s, t) ==
  LET n == Min(Len(s), Len(t))
      diff == {i \in 1..n : s[i] # t[i]}
  IN  IF diff = {} THEN Len(s) < Len(t)
      ELSE LET i == CHOOSE j \in diff : \A k \in diff : j <= k IN s[i] < t[i]

\* key.replace(REGEXP_STRIPKEY, ''), REGEXP_STRIPKEY = /[,. '_-]/g
IsStripped(c) == c \in {44, 46, 32, 39, 95, 45}
StripKeyChars(s) == SelectSeq(s, LAMBDA c : ~IsStripped(c))

\* isTrue(v): the attribute value is 'yes' or 'true'; the model holds the result
isTrue(v) == v

(***************************************************************************)
(* A JavaScript string value is primitive or a String object.  loadKeys    *)
(* makes every key of a list a String object (new Object(text)); === on an *)
(* object and a primitive is false.                                        *)
(***************************************************************************)
Prim(s) == [obj |-> FALSE, s |-> s]
Obj(s) == [obj |-> TRUE, s |-> s]
StrictEquals(x, y) == ~x.obj /\ ~y.obj /\ x.s = y.s

\* the text _adaptKey yields for a dictionary with attributes a
AdaptWith(a, s) ==
  IF isTrue(a.KeyCaseSensitive)
  THEN IF isTrue(a.StripKey) THEN StripKeyChars(s) ELSE s
  ELSE IF isTrue(a.StripKey) THEN StripKeyChars(toLowerCase(s)) ELSE toLowerCase(s)

\* _adaptKey as config() sets it; function(key) { return key; } hands back
\* its argument, an object if it was given one
AdaptKeyWith(a, v) ==
  IF isTrue(a.KeyCaseSensitive) /\ ~isTrue(a.StripKey) THEN v
  ELSE Prim(AdaptWith(a, v.s))

_adaptKey(v) == AdaptKeyWith(attrs, v)

(***************************************************************************)
(* The record block table (createRecordBlockTable).  arr is an Uint32Array *)
(* of pairs; the model keeps the pairs as a sequence, pair i of the code   *)
(* at place i + 1.                                                         *)
(***************************************************************************)
\* a value stored in an Uint32Array: n modulo 2^32, by 16-bit halves
Uint32(n) == (n % 65536) + 65536 * ((n \div 65536) % 65536)

\* read_record_block: alloc(size + 1), put(p0, p1) per block, and the tail
RECURSIVE PutRecordBlocks(_, _, _, _)
PutRecordBlocks(record_index, i, p0, p1) ==
  IF i > Len(record_index) THEN << <<Uint32(p0), Uint32(p1)>> >>
  ELSE << <<Uint32(p0), Uint32(p1)>> >>
       \o PutRecordBlocks(record_index, i + 1,
                          p0 + record_index[i].comp_size,
                          p1 + record_index[i].decomp_size)

read_record_block(record_index, block_pos) ==
  PutRecordBlocks(record_index, 1, block_pos, 0)

NoBlock ==
  [block_no |-> UNDEFINED, comp_offset |-> 0, comp_size |-> 0,
   decomp_offset |-> 0, decomp_size |-> 0]

\* the loop of RECORD_BLOCK_TABLE.find; val is arr[(i << 1) + 1]
RECURSIVE RecordFindLoop(_, _, _, _)
RecordFindLoop(arr, keyAt, lo, hi) ==
  LET i == (lo + hi) \div 2
      val == arr[i + 1][2]
  IN  IF hi - lo <= 1
      THEN IF i < hi
           THEN [block_no |-> i,
                 comp_offset |-> arr[i + 1][1],
                 comp_size |-> arr[i + 2][1] - arr[i + 1][1],
                 decomp_offset |-> arr[i + 1][2],
                 decomp_size |-> arr[i + 2][2] - arr[i + 1][2]]
           ELSE NoBlock
      ELSE IF keyAt < val THEN RecordFindLoop(arr, keyAt, lo, i)
           ELSE RecordFindLoop(arr, keyAt, i, hi)

\* RECORD_BLOCK_TABLE.find(keyAt)
RecordBlockFind(arr, keyAt) ==
  LET hi == Len(arr) - 1
  IN  IF keyAt > arr[hi + 1][2] \/ keyAt < 0 THEN NoBlock
      ELSE RecordFindLoop(arr, keyAt, 0, hi)

(***************************************************************************)
(* Scan mode: reduce, shrink, loadKeys' list.                              *)
(***************************************************************************)
NoKdx ==
  [num_entries |-> 0, first_word |-> <<>>, last_word |-> <<>>, comp_size |-> 0,
   decomp_size |-> 0, offset |-> 0, index |-> UNDEFINED]

\* the look-back loop of reduce: len steps down while the block before len
\* ends with the word block len starts with
RECURSIVE LookBack(_, _)
LookBack(arr, len) ==
  IF len > 1
  THEN IF arr[len].last_word # arr[len + 1].first_word THEN len
       ELSE LookBack(arr, len - 1)
  ELSE len

\* reduce(arr, phrase): the element of the key index that contains phrase or
\* is nearest to it; arr[0] of an empty array is undefined
RECURSIVE reduce(_, _)
reduce(arr, phrase) ==
  IF Len(arr) > 1
  THEN LET len == Len(arr) \div 2
       IN  IF StrLess(phrase, _adaptKey(Prim(arr[len + 1].first_word)).s)
           THEN reduce(SubSeq(arr, 1, LookBack(arr, len)), phrase)
           ELSE reduce(SubSeq(arr, len + 1, Len(arr)), phrase)
  ELSE IF Len(arr) = 1 THEN arr[1] ELSE NoKdx

NaN == -2
\* arr.pos || 0
PosOrZero(pos) == IF pos = UNDEFINED \/ pos = NaN THEN 0 ELSE pos
\* arr.pos + n, NaN when arr.pos is undefined
PosPlus(pos, n) == IF pos = UNDEFINED \/ pos = NaN THEN NaN ELSE pos + n

LastChar(s) == IF s = <<>> THEN UNDEFINED ELSE s[Len(s)]

\* shrink(arr, phrase): index in the list of the element that matches phrase
\* or is nearest to it.  arr is a list of String objects, pos is arr.pos.
RECURSIVE shrink(_, _, _)
shrink(arr, pos, phrase) ==
  IF Len(arr) > 1
  THEN LET len == Len(arr) \div 2
           key == _adaptKey(Obj(arr[len + 1].s))
       IN  IF StrLess(phrase, key.s)
           THEN IF /\ LastChar(key.s) = 45
                   /\ len + 2 <= Len(arr)
                   /\ StrictEquals(Obj(arr[len + 2].s), Prim(phrase))
                THEN PosPlus(pos, len + 1)
                ELSE shrink(SubSeq(arr, 1, len), pos, phrase)
           ELSE IF /\ LastChar(arr[len + 1].s) = 32
                   /\ StrictEquals(Obj(arr[len].s), Prim(phrase))
                THEN PosPlus(pos, len - 1)
                ELSE shrink(SubSeq(arr, len + 1, Len(arr)), PosOrZero(pos) + len, phrase)
  ELSE PosOrZero(pos)
       + (IF Len(arr) = 1 /\ StrictEquals(Prim(phrase), _adaptKey(Obj(arr[1].s)))
          THEN 0 ELSE 1)

\* the loop of findCandidates that walks back over keys equal to the phrase
RECURSIVE WalkBack(_, _, _)
WalkBack(list, idx, phrase) ==
  IF idx > 0
  THEN IF ~StrictEquals(_adaptKey(Obj(list[idx].s)), Prim(phrase)) THEN idx
       ELSE WalkBack(list, idx - 1, phrase)
  ELSE idx

\* Array.prototype.slice(from, to); a NaN bound counts as 0
slice(list, from, to) ==
  LET f == IF from = NaN THEN 0 ELSE from
      t == IF to = NaN \/ from = NaN THEN 0 ELSE Min(to, Len(list))
  IN  SubSeq(list, f + 1, t)

\* the list loadKeys builds from the entries of a key block: String objects
\* with an offset, and a size set inside "if (i > 1)"
KeyList(entries, num_entries) ==
  [j \in 1..num_entries |->
     [s |-> entries[j].key,
      offset |-> entries[j].offset,
      size |-> IF j - 1 >= 1 /\ j + 1 <= num_entries
               THEN entries[j + 1].offset - entries[j].offset
               ELSE UNDEFINED]]

(***************************************************************************)
(* The dictionaries of Spec.  A dictionary is described by its extension,  *)
(* its attributes, its keywords in stored order, the places where a key    *)
(* block ends, and the records that are links.                             *)
(***************************************************************************)
LINK == <<64, 64, 64, 76, 73, 78, 75, 61>>            \* "@@@LINK="

Words == {<<97>>, <<66, 45>>}                          \* "a", "B-"
ImgPath == <<92, 105, 109, 103, 92, 97, 46, 112, 110, 103>>   \* "\img\a.png"
MddWords == {<<92, 97>>, ImgPath}                      \* "\a", "\img\a.png"

\* the phrases callers ask for: "", "a", "B-", "b", "A "
MdxPhrases == {<<>>, <<97>>, <<66, 45>>, <<98>>, <<65, 32>>}
\* "/img/a.png", "\img\a.png", "img/a.png", "/z"
MddPhrases ==
  {<<47, 105, 109, 103, 47, 97, 46, 112, 110, 103>>, ImgPath,
   <<105, 109, 103, 47, 97, 46, 112, 110, 103>>, <<47, 122>>}

AttrSets == [KeyCaseSensitive : BOOLEAN, StripKey : BOOLEAN]

WordsOf(e) == IF e = "mdx" THEN Words ELSE MddWords

\* keys stored in ascending adapted order
Ascending(a, keys) ==
  \A i \in 1..(Len(keys) - 1) :
     ~StrLess(AdaptWith(a, keys[i + 1]), AdaptWith(a, keys[i]))

Dictionaries ==
  { d \in [ext : {"mdx", "mdd"}, a : AttrSets,
           keys : UNION {[1..n -> Words \cup MddWords] : n \in 0..MaxKeys},
           cuts : SUBSET (1..(MaxKeys - 1)),
           links : UNION {[L -> Words] : L \in SUBSET (1..MaxKeys)}] :
      /\ \A i \in DOMAIN d.keys : d.keys[i] \in WordsOf(d.ext)
      /\ Ascending(d.a, d.keys)
      /\ d.cuts \subseteq 1..(Len(d.keys) - 1)
      /\ Cardinality(d.cuts) <= MaxBlocks - 1
      /\ DOMAIN d.links \subseteq DOMAIN d.keys
      /\ Cardinality(DOMAIN d.links) <= MaxLinks
      /\ d.ext = "mdd" => DOMAIN d.links = {} }

\* the record of keyword i: a definition text ("1", "2", ...) or a link for
\* mdx, two bytes for mdd
RecordOf(d, i) ==
  IF d.ext = "mdd" THEN <<10 * i, 10 * i + 1>>
  ELSE IF i \in DOMAIN d.links THEN LINK \o d.links[i] ELSE <<48 + i>>

\* as stored: text is NUL-terminated, a resource is raw
StoredRecord(d, i) == IF d.ext = "mdd" THEN RecordOf(d, i) ELSE RecordOf(d, i) \o <<0>>

RECURSIVE RecordOffset(_, _)
RecordOffset(d, i) ==
  IF i <= 1 THEN 0 ELSE RecordOffset(d, i - 1) + Len(StoredRecord(d, i - 1))

\* the keywords with their record offsets, in stored order
EntriesOf(d) == [i \in DOMAIN d.keys |-> [key |-> d.keys[i], offset |-> RecordOffset(d, i)]]

\* the key blocks: entries up to each cut, and the rest
BlockEnds(d) == d.cuts \cup (IF d.keys = <<>> THEN {} ELSE {Len(d.keys)})
RECURSIVE SortedEnds(_)
SortedEnds(S) ==
  IF S = {} THEN <<>>
  ELSE LET m == CHOOSE x \in S : \A y \in S : x <= y IN <<m>> \o SortedEnds(S \ {m})

KeyBlocksOf(d) ==
  LET ends == SortedEnds(BlockEnds(d))
  IN  [b \in DOMAIN ends |->
         SubSeq(EntriesOf(d), IF b = 1 THEN 1 ELSE ends[b - 1] + 1, ends[b])]

RECURSIVE SumLen(_)
SumLen(ss) == IF ss = <<>> THEN 0 ELSE Len(Head(ss)) + SumLen(Tail(ss))

\* bytes of a decompressed key block: a 4-byte offset, the key, a NUL
KeyBlockSize(entries) == SumLen([j \in DOMAIN entries |-> entries[j].key]) + 5 * Len(entries)

\* the record blocks: RecordsPerBlock records each
RECURSIVE Concat(_)
Concat(ss) == IF ss = <<>> THEN <<>> ELSE Head(ss) \o Concat(Tail(ss))

RecordBlocksOf(d) ==
  LET n == Len(d.keys)
      nb == (n + RecordsPerBlock - 1) \div RecordsPerBlock
  IN  [b \in 1..nb |->
         Concat([k \in 1..Min(RecordsPerBlock, n - (b - 1) * RecordsPerBlock) |->
                   StoredRecord(d, (b - 1) * RecordsPerBlock + k)])]

\* The layout of the file: the key blocks follow the keyword index, the
\* record summary and the record block index follow the key blocks, the
\* record blocks come last.  A compressed block is 8 bytes of preamble and
\* its payload.
RECURSIVE Offsets(_, _)
Offsets(sizes, at) ==
  IF sizes = <<>> THEN <<>> ELSE <<at>> \o Offsets(Tail(sizes), at + Head(sizes))

RECURSIVE Sum(_)
Sum(ns) == IF ns = <<>> THEN 0 ELSE Head(ns) + Sum(Tail(ns))

KeyBlocksStart == 100     \* where the first key block lies in the files

\* record summary and record block index entry, in bytes
RecordSummaryLen(v2) == IF v2 THEN 32 ELSE 16
RecordIndexEntryLen(v2) == IF v2 THEN 16 ELSE 8

FileAt(d, v2) ==
  LET kb == KeyBlocksOf(d)
      ksize == [b \in DOMAIN kb |-> 8 + KeyBlockSize(kb[b])]
      koff == Offsets(ksize, KeyBlocksStart)
      rb == RecordBlocksOf(d)
      rsize == [b \in DOMAIN rb |-> 8 + Len(rb[b])]
      rpos == KeyBlocksStart + Sum(ksize) + RecordSummaryLen(v2)
                + RecordIndexEntryLen(v2) * Len(rb)
      roff == Offsets(rsize, rpos)
  IN  [keyBlocks |-> [b \in DOMAIN kb |->
                        [offset |-> koff[b], size |-> ksize[b], entries |-> kb[b]]],
       recordBlocks |-> [b \in DOMAIN rb |->
                        [offset |-> roff[b], size |-> rsize[b], data |-> rb[b]]],
       block_pos |-> rpos]

FileOf(d) == FileAt(d, TRUE)

\* a keyword index whose offsets do not advance by the sizes of the blocks
IndexWithoutAdvance(f, offset) ==
  [b \in DOMAIN f.keyBlocks |->
     LET kb == f.keyBlocks[b]
     IN  [num_entries |-> Len(kb.entries),
          first_word |-> kb.entries[1].key,
          last_word |-> kb.entries[Len(kb.entries)].key,
          comp_size |-> kb.size,
          decomp_size |-> kb.size - 8,
          offset |-> offset,
          index |-> b - 1]]

\* read_keyword_index: one entry per key block, the offsets counted from
\* the start of the key blocks
read_keyword_index(f, offset) ==
  LET sizes == [b \in DOMAIN f.keyBlocks |-> f.keyBlocks[b].size]
      offs == Offsets(sizes, offset)
  IN  [b \in DOMAIN f.keyBlocks |->
         LET kb == f.keyBlocks[b]
         IN  [num_entries |-> Len(kb.entries),
              first_word |-> kb.entries[1].key,
              last_word |-> kb.entries[Len(kb.entries)].key,
              comp_size |-> kb.size,
              decomp_size |-> kb.size - 8,
              offset |-> offs[b],
              index |-> b - 1]]

\* what read_keyword_index leaves in KEY_INDEX for the file
KeyIndexOf(f) == read_keyword_index(f, KeyBlocksStart)

\* the record block index of the file: (comp_size, decomp_size) per block
RecordIndexOf(f) ==
  [b \in DOMAIN f.recordBlocks |->
     [comp_size |-> f.recordBlocks[b].size,
      decomp_size |-> Len(f.recordBlocks[b].data)]]

(***************************************************************************)
(* Values handed to callers.  A value is a sequence of tokens, so that an  *)
(* array of arrays keeps its nesting: [["1"]] is open open txt close close.*)
(***************************************************************************)
Token(k, s) == [k |-> k, s |-> s]
Txt(s) == <<Token("txt", s)>>
Bin(s) == <<Token("bin", s)>>
Arr(v) == <<Token("open", <<>>)>> \o v \o <<Token("close", <<>>)>>
Reason(k) == <<Token(k, <<>>)>>

(***************************************************************************)
(* Lookup calls.  Call 1 is the call made on the handle, the others are    *)
(* the LOOKUP.mdx calls followLink makes.  A call is the promise chain of  *)
(* one LOOKUP[ext] or search invocation: st is the callback it waits for,  *)
(* slots are the findWord promises harvest settles, out and val are what   *)
(* the returned promise settles with.                                      *)
(***************************************************************************)
NoInfo == [s |-> <<>>, offset |-> 0, size |-> UNDEFINED]

Blank ==
  [st |-> "idle", kind |-> "none", phrase |-> <<>>, offset |-> UNDEFINED,
   word |-> <<>>, adapted |-> <<>>, kdx |-> NoKdx, cands |-> <<>>,
   slots |-> <<>>, parent |-> 0, pslot |-> 0, depth |-> 0,
   out |-> "pending", val |-> <<>>]

NoKeys == [set |-> FALSE, list |-> <<>>, pilot |-> <<>>]

\* callbacks of resolved promises run before the callbacks of file reads;
\* file reads complete in the order they were issued
Enqueue(ts, t) ==
  IF t.io THEN Append(ts, t)
  ELSE LET n == Cardinality({i \in DOMAIN ts : ~ts[i].io})
       IN  SubSeq(ts, 1, n) \o <<t>> \o SubSeq(ts, n + 1, Len(ts))

\* sliceThen(file, offset, len) on a key block and on a record block
SliceKeyBlock(offset) ==
  LET b == CHOOSE i \in DOMAIN file.keyBlocks : file.keyBlocks[i].offset = offset
  IN  file.keyBlocks[b].entries

SliceRecordBlock(offset) ==
  LET b == CHOOSE i \in DOMAIN file.recordBlocks : file.recordBlocks[i].offset = offset
  IN  file.recordBlocks[b].data

\* loadKeys(kdx): the cached list if its pilot is kdx.first_word, a file
\* read otherwise; st is the callback that takes the list
loadKeys(w, c, kdx, st) ==
  LET hit == w.last.set /\ w.last.pilot = kdx.first_word
      t == [c |-> c, slot |-> 0, io |-> ~hit,
            list |-> IF hit THEN w.last.list ELSE <<>>]
  IN  [w EXCEPT !.calls[c].st = st, !.calls[c].kdx = kdx,
                !.tasks = Enqueue(@, t)]

\* findCandidates(phrase) up to the promise it returns; reduce of an empty
\* key index is undefined and loadKeys(undefined) throws a TypeError
findCandidates(w, c, phrase) ==
  LET adapted == _adaptKey(Prim(phrase)).s
      kdx == reduce(KEY_INDEX, adapted)
  IN  IF kdx.index = UNDEFINED
      THEN [w EXCEPT !.calls[c].st = "done", !.calls[c].out = "threw",
                     !.calls[c].val = Reason("TypeError")]
      ELSE loadKeys([w EXCEPT !.calls[c].adapted = adapted], c, kdx, "keys")

\* LOOKUP.mdx(phrase, offset), scan mode, called for call c
LOOKUP_mdx(w, c, phrase, offset, parent, pslot) ==
  LET word == toLowerCase(trim(phrase))
      call == [Blank EXCEPT !.kind = "mdx", !.phrase = phrase, !.offset = offset,
                            !.word = word, !.parent = parent, !.pslot = pslot,
                            !.depth = IF parent = 0 THEN 0
                                      ELSE w.calls[parent].depth + 1]
  IN  findCandidates([w EXCEPT !.calls[c] = call], c, word)

\* word.replace(/(^[/\\])|([/]$)/, ''): the first match only
StripSlash(s) ==
  IF s # <<>> /\ s[1] \in {47, 92} THEN Tail(s)
  ELSE IF s # <<>> /\ s[Len(s)] = 47 THEN SubSeq(s, 1, Len(s) - 1)
  ELSE s

\* LOOKUP.mdd(phrase), scan mode
LOOKUP_mdd(w, c, phrase) ==
  LET word == <<92>> \o StripSlash(toLowerCase(trim(phrase)))
      call == [Blank EXCEPT !.kind = "mdd", !.phrase = phrase, !.word = word]
  IN  findCandidates([w EXCEPT !.calls[c] = call], c, word)

\* LOOKUP.mdx.search(phrase) is findCandidates itself
search(w, c, phrase) ==
  LET call == [Blank EXCEPT !.kind = "search", !.phrase = phrase, !.word = phrase]
  IN  findCandidates([w EXCEPT !.calls[c] = call], c, phrase)

(***************************************************************************)
(* harvest and the settling of a call.  Promise.settle and the inspections *)
(* it yields belong to the promise library: isResolved() of the inspection *)
(* of a rejected promise is either true, and value() then throws a         *)
(* TypeError, or false (lib tells which).                                  *)
(***************************************************************************)
RECURSIVE Settle(_, _, _, _, _)
RECURSIVE harvest(_, _, _)

\* call c's promise settles; a promise followLink returned settles the
\* findWord promise that adopted it
Settle(w, c, out, val, lib) ==
  LET w1 == [w EXCEPT !.calls[c].st = "done", !.calls[c].out = out,
                      !.calls[c].val = val]
      p == w.calls[c].parent
      k == w.calls[c].pslot
  IN  IF p = 0 THEN w1
      ELSE harvest([w1 EXCEPT !.calls[p].slots[k].st =
                                 IF out = "fulfilled" THEN "ok" ELSE "err",
                              !.calls[p].slots[k].val = val], p, lib)

harvest(w, c, lib) ==
  LET slots == w.calls[c].slots
      solved == Concat([k \in DOMAIN slots |->
                          IF slots[k].st = "ok" THEN slots[k].val ELSE <<>>])
      failed == Concat([k \in DOMAIN slots |->
                          IF slots[k].st = "err" THEN slots[k].val ELSE <<>>])
  IN  IF \E k \in DOMAIN slots : slots[k].st \in {"read", "link"} THEN w
      ELSE IF slots = <<>> THEN Settle(w, c, "rejected", Reason("NOT_FOUND"), lib)
      ELSE IF failed # <<>> /\ lib
           THEN Settle(w, c, "rejected", Reason("TypeError"), lib)
      ELSE Settle(w, c, "fulfilled",
                  Arr(IF solved # <<>> THEN solved ELSE failed), lib)

(***************************************************************************)
(* Records.                                                                *)
(***************************************************************************)
\* _searchTextLen for a single-byte encoding: bytes before the NUL, or
\* UNDEFINED when the scan runs off the buffer (getUint8 throws RangeError)
searchTextLen(data, offset) ==
  LET nul == {i \in (offset + 1)..Len(data) : data[i] = 0}
  IN  IF nul = {} THEN UNDEFINED
      ELSE (CHOOSE i \in nul : \A j \in nul : i <= j) - offset - 1

\* read_definition(input, block, keyinfo): the text at the record's offset
\* in the decompressed record block
read_definition(data, block, keyinfo) ==
  LET offset == keyinfo.offset - block.decomp_offset
      len == searchTextLen(data, offset)
  IN  IF len = UNDEFINED THEN [thrown |-> TRUE, text |-> <<>>]
      ELSE [thrown |-> FALSE, text |-> SubSeq(data, offset + 1, offset + len)]

\* read_object(input, block, keyinfo): readRaw(keyinfo.size), to the end of
\* the buffer when the size is undefined
read_object(data, block, keyinfo) ==
  LET offset == keyinfo.offset - block.decomp_offset
  IN  IF keyinfo.size = UNDEFINED THEN SubSeq(data, offset + 1, Len(data))
      ELSE SubSeq(data, offset + 1, Min(offset + keyinfo.size, Len(data)))

\* definition.substring(0, 8) !== '@@@LINK='
IsLink(definition) == SubSeq(definition, 1, Min(8, Len(definition))) = LINK

\* followLink(definition, lookup): the definition itself, or the keyword
\* lookup is called with
followLink(definition) ==
  IF ~IsLink(definition) THEN definition
  ELSE SubSeq(definition, 9, Len(definition))

FreeCalls(cs) == {i \in DOMAIN cs : i > 1 /\ cs[i].st = "idle"}
FreeCall(cs) == CHOOSE i \in FreeCalls(cs) : \A j \in FreeCalls(cs) : i <= j

Slot(info) == [st |-> "read", info |-> info, val |-> <<>>, child |-> 0]

RECURSIVE EnqueueReads(_, _, _, _)
EnqueueReads(ts, c, k, n) ==
  IF k > n THEN ts
  ELSE EnqueueReads(Enqueue(ts, [c |-> c, slot |-> k, io |-> TRUE, list |-> <<>>]),
                    c, k + 1, n)

\* findWord / findResource up to the file read: the record block is looked
\* up in RECORD_BLOCK_TABLE and sliced; find yields undefined for an offset
\* outside the table and block.comp_offset then throws
findRecords(w, c, infos, st, lib) ==
  IF \E k \in DOMAIN infos :
        RecordBlockFind(RECORD_BLOCK_TABLE, infos[k].offset).block_no = UNDEFINED
  THEN Settle(w, c, "rejected", Reason("TypeError"), lib)
  ELSE [w EXCEPT !.calls[c].st = st,
                 !.calls[c].slots = [k \in DOMAIN infos |-> Slot(infos[k])],
                 !.tasks = EnqueueReads(@, c, 1, Len(infos))]

\* what the caller of findCandidates does with the candidates
Candidates(w, c, candidates, lib) ==
  LET call == w.calls[c]
      w1 == [w EXCEPT !.calls[c].cands = candidates]
  IN  CASE call.kind = "search" -> Settle(w1, c, "fulfilled", <<>>, lib)
        [] call.kind = "mdx" ->
             LET f(v) == IF call.offset # UNDEFINED THEN v.offset = call.offset
                         ELSE toLowerCase(v.s) = call.word
                 infos == SelectSeq(candidates, f)
             IN  IF infos = <<>> THEN harvest(w1, c, lib)
                 ELSE findRecords(w1, c, infos, "records", lib)
        [] OTHER ->
             LET g(one) == toLowerCase(one.s) = call.word
                 found == SelectSeq(candidates, g)
             IN  IF found = <<>>
                 THEN Settle(w1, c, "rejected", Reason("TypeError"), lib)
                 ELSE findRecords(w1, c, <<found[1]>>, "resource", lib)

\* the list a loadKeys promise resolves with, and the cache after it
LoadedList(w, t) ==
  IF t.io THEN LET kdx == w.calls[t.c].kdx
               IN  KeyList(SliceKeyBlock(kdx.offset), kdx.num_entries)
  ELSE t.list

Cached(w, t) ==
  IF t.io THEN [w EXCEPT !.last = [set |-> TRUE, list |-> LoadedList(w, t),
                                   pilot |-> w.calls[t.c].kdx.first_word]]
  ELSE w

\* the callback findCandidates gives to loadKeys(kdx)
KeysThen(w, t, lib) ==
  LET c == t.c
      call == w.calls[c]
      list == LoadedList(w, t)
      idx == WalkBack(list, shrink(list, UNDEFINED, call.adapted), call.adapted)
      candidates == slice(list, idx, PosPlus(idx, MAX_CANDIDATES))
      shortage == MAX_CANDIDATES - Len(candidates)
      w1 == [Cached(w, t) EXCEPT !.calls[c].cands = candidates]
  IN  IF shortage > 0 /\ call.kdx.index + 2 <= Len(KEY_INDEX)
      THEN loadKeys(w1, c, KEY_INDEX[call.kdx.index + 2], "next")
      ELSE Candidates(w1, c, candidates, lib)

\* the callback it gives to loadKeys of the following block
NextKeysThen(w, t, lib) ==
  LET c == t.c
      candidates == w.calls[c].cands
      shortage == MAX_CANDIDATES - Len(candidates)
      nextList == LoadedList(w, t)
  IN  Candidates(Cached(w, t), c, candidates \o slice(nextList, 0, shortage), lib)

\* findWord's callbacks: read_definition, then followLink with LOOKUP.mdx
DefinitionThen(w, t, lib) ==
  LET c == t.c
      k == t.slot
      info == w.calls[c].slots[k].info
      block == RecordBlockFind(RECORD_BLOCK_TABLE, info.offset)
      read == read_definition(SliceRecordBlock(block.comp_offset), block, info)
      ch == FreeCall(w.calls)
      w1 == LOOKUP_mdx([w EXCEPT !.calls[c].slots[k].st = "link",
                                 !.calls[c].slots[k].child = ch],
                       ch, followLink(read.text), UNDEFINED, c, k)
  IN  IF read.thrown
      THEN harvest([w EXCEPT !.calls[c].slots[k].st = "err",
                             !.calls[c].slots[k].val = Reason("RangeError")], c, lib)
      ELSE IF ~IsLink(read.text)
      THEN harvest([w EXCEPT !.calls[c].slots[k].st = "ok",
                             !.calls[c].slots[k].val = Txt(followLink(read.text))],
                   c, lib)
      ELSE IF w1.calls[ch].out = "threw"
      THEN harvest([w1 EXCEPT !.calls[c].slots[k].st = "err",
                              !.calls[c].slots[k].val = Reason("TypeError")], c, lib)
      ELSE w1

\* findResource's callbacks: read_object, then resolve(blob)
ObjectThen(w, t, lib) ==
  LET c == t.c
      info == w.calls[c].slots[t.slot].info
      block == RecordBlockFind(RECORD_BLOCK_TABLE, info.offset)
      blob == read_object(SliceRecordBlock(block.comp_offset), block, info)
  IN  Settle([w EXCEPT !.calls[c].slots[t.slot].st = "ok",
                       !.calls[c].slots[t.slot].val = Bin(blob)],
             c, "fulfilled", Bin(blob), lib)

(***************************************************************************)
(* Spec: lookups on the handle of an opened dictionary.  The key table is  *)
(* never loaded (willLoadKeyTable is not called), so every lookup runs in  *)
(* scan mode.  The caller makes one call at a time.                        *)
(***************************************************************************)
LookupOffsets == {UNDEFINED, 0}      \* the offset argument of LOOKUP.mdx

Init ==
  /\ \E d \in Dictionaries :
       LET f == FileOf(d)
       IN  /\ ext = d.ext
           /\ attrs = d.a
           /\ file = f
           /\ KEY_INDEX = KeyIndexOf(f)
           /\ RECORD_BLOCK_TABLE = read_record_block(RecordIndexOf(f), f.block_pos)
  /\ KEY_TABLE_ready = FALSE
  /\ _last_keys = NoKeys
  /\ calls = [i \in 1..MaxCalls |-> Blank]
  /\ tasks = <<>>
  /\ parse = "opened"
  /\ scan = "unused"
  /\ TableUnused

World == [calls |-> calls, tasks |-> tasks, last |-> _last_keys]
Fresh == [calls |-> [i \in 1..MaxCalls |-> Blank], tasks |-> <<>>, last |-> _last_keys]
Popped == [World EXCEPT !.tasks = Tail(tasks)]

\* a step of a dictionary whose open had scheduled willLoadKeyTable: the
\* table is loaded and sorted by the time any callback runs
BecomesLoaded(w) ==
  /\ calls' = w.calls
  /\ tasks' = w.tasks
  /\ _last_keys' = w.last
  /\ KEY_TABLE_ready' = TRUE
  /\ UNCHANGED <<ext, attrs, KEY_INDEX, RECORD_BLOCK_TABLE, file, parse, scan>>
  /\ TableUnchanged

Becomes(w) ==
  /\ calls' = w.calls
  /\ tasks' = w.tasks
  /\ _last_keys' = w.last
  /\ UNCHANGED <<ext, attrs, KEY_INDEX, RECORD_BLOCK_TABLE, KEY_TABLE_ready, file,
                 parse, scan>>
  /\ TableUnchanged

\* the caller calls the handle of an mdx file
LookupMdx(phrase, offset) ==
  /\ ext = "mdx" /\ ~KEY_TABLE_ready /\ tasks = <<>>
  /\ Becomes(LOOKUP_mdx(Fresh, 1, phrase, offset, 0, 0))

\* the caller calls the handle of an mdd file
LookupMdd(phrase) ==
  /\ ext = "mdd" /\ ~KEY_TABLE_ready /\ tasks = <<>>
  /\ Becomes(LOOKUP_mdd(Fresh, 1, phrase))

\* the caller calls search of the handle of an mdx file
Search(phrase) ==
  /\ ext = "mdx" /\ tasks = <<>>
  /\ Becomes(search(Fresh, 1, phrase))

\* a loadKeys promise of findCandidates resolves
KeysLoaded ==
  /\ tasks # <<>> /\ Head(tasks).slot = 0 /\ calls[Head(tasks).c].st = "keys"
  /\ \E lib \in BOOLEAN : Becomes(KeysThen(Popped, Head(tasks), lib))

\* the loadKeys promise of the following block resolves
NextKeysLoaded ==
  /\ tasks # <<>> /\ Head(tasks).slot = 0 /\ calls[Head(tasks).c].st = "next"
  /\ \E lib \in BOOLEAN : Becomes(NextKeysThen(Popped, Head(tasks), lib))

\* the text the read of a record block will yield for the task
TextRead(t) ==
  LET info == calls[t.c].slots[t.slot].info
      block == RecordBlockFind(RECORD_BLOCK_TABLE, info.offset)
  IN  read_definition(SliceRecordBlock(block.comp_offset), block, info)

\* the record block read of a findWord resolves; a link is followed while
\* the model has a call left for it
DefinitionRead ==
  /\ tasks # <<>> /\ Head(tasks).slot > 0 /\ calls[Head(tasks).c].kind = "mdx"
  /\ IsLink(TextRead(Head(tasks)).text) => FreeCalls(calls) # {}
  /\ \E lib \in BOOLEAN : Becomes(DefinitionThen(Popped, Head(tasks), lib))

\* the record block read of a findResource resolves
ObjectRead ==
  /\ tasks # <<>> /\ Head(tasks).slot > 0 /\ calls[Head(tasks).c].kind = "mdd"
  /\ \E lib \in BOOLEAN : Becomes(ObjectThen(Popped, Head(tasks), lib))

Next ==
  \/ \E phrase \in MdxPhrases, offset \in LookupOffsets : LookupMdx(phrase, offset)
  \/ \E phrase \in MddPhrases : LookupMdd(phrase)
  \/ \E phrase \in MdxPhrases : Search(phrase)
  \/ KeysLoaded
  \/ NextKeysLoaded
  \/ DefinitionRead
  \/ ObjectRead

Spec == Init /\ [][Next]_vars

(***************************************************************************)
(* Properties of lookups.                                                  *)
(***************************************************************************)
\* the call made on the handle
Top == calls[1]

\* the stored keyword sequence, and the stored records end to end
StoredKeys == Concat([b \in DOMAIN file.keyBlocks |-> file.keyBlocks[b].entries])
StoredRecords == Concat([b \in DOMAIN file.recordBlocks |-> file.recordBlocks[b].data])

\* the text stored at a record offset
StoredTextAt(offset) ==
  SubSeq(StoredRecords, offset + 1, offset + searchTextLen(StoredRecords, offset))

\* the coarsest form of a key or phrase: trimmed, lower case, stripped
Coarse(s) == StripKeyChars(toLowerCase(trim(s)))

\* the mdx lookup of a phrase has settled or thrown
LookedUp(phrase) ==
  /\ ext = "mdx" /\ Top.kind = "mdx" /\ Top.st = "done"
  /\ Top.offset = UNDEFINED /\ Top.phrase = phrase

\* C1: round trip on an mdx handle: the lookup of a stored keyword fulfils
\* with a collection that includes the definition stored at the keyword's
\* record offset (stated for the keywords whose record is a definition text)
C1_RoundTrip ==
  \A i \in DOMAIN StoredKeys :
     (LookedUp(StoredKeys[i].key) /\ ~IsLink(StoredTextAt(StoredKeys[i].offset)))
        => /\ Top.out = "fulfilled"
           /\ \E j \in DOMAIN Top.val :
                 Top.val[j] = Token("txt", StoredTextAt(StoredKeys[i].offset))

\* C2: the mdx lookup of a phrase that matches no stored keyword is rejected
\* with a not-found reason; it never fulfils and never throws
C2_NotFoundRejected ==
  \A phrase \in MdxPhrases :
     (LookedUp(phrase)
        /\ \A i \in DOMAIN StoredKeys : Coarse(StoredKeys[i].key) # Coarse(phrase))
        => Top.out = "rejected" /\ Top.val = Reason("NOT_FOUND")

\* the three query forms of the resource stored under \img\a.png
ImgForms ==
  {<<47, 105, 109, 103, 47, 97, 46, 112, 110, 103>>, ImgPath,
   <<105, 109, 103, 47, 97, 46, 112, 110, 103>>}

\* C3: with a resource stored under \img\a.png, the mdd lookups of
\* /img/a.png, \img\a.png and img/a.png all use the lookup key \img\a.png
C3_PathNormalized ==
  (/\ ext = "mdd" /\ Top.kind = "mdd" /\ Top.phrase \in ImgForms
   /\ \E i \in DOMAIN StoredKeys : StoredKeys[i].key = ImgPath)
     => Top.word = ImgPath

\* a path with every slash turned into a backslash
Backslashed(s) == [i \in DOMAIN s |-> IF s[i] = 47 THEN 92 ELSE s[i]]

\* C4: the mdd lookup of a path that matches no stored resource key is
\* rejected with a not-found reason, not with another kind of error
C4_MissingResourceRejected ==
  (/\ ext = "mdd" /\ Top.kind = "mdd" /\ Top.st = "done" /\ KEY_INDEX # <<>>
   /\ \A i \in DOMAIN StoredKeys :
         toLowerCase(StoredKeys[i].key) # Backslashed(Top.word))
     => Top.out = "rejected" /\ Top.val = Reason("NOT_FOUND")

\* a search has fulfilled
Searched == ext = "mdx" /\ Top.kind = "search" /\ Top.st = "done" /\ Top.out = "fulfilled"

\* the stored keywords whose adapted form is >= the adapted phrase
NotBelow(phrase) ==
  {i \in DOMAIN StoredKeys :
     ~StrLess(AdaptWith(attrs, StoredKeys[i].key), AdaptWith(attrs, phrase))}

\* C5: the window of search(phrase) starts at the least stored keyword whose
\* adapted form is >= the adapted phrase, and every key of it adapts to a
\* string >= the adapted phrase
C5_SearchStartsAtLeast ==
  Searched =>
    /\ NotBelow(Top.phrase) # {} =>
         /\ Top.cands # <<>>
         /\ Top.cands[1].offset =
              StoredKeys[CHOOSE i \in NotBelow(Top.phrase) :
                           \A j \in NotBelow(Top.phrase) : i <= j].offset
    /\ \A j \in DOMAIN Top.cands :
          ~StrLess(AdaptWith(attrs, Top.cands[j].s), AdaptWith(attrs, Top.phrase))

\* C6: search returns at most 64 keys, and they are consecutive entries of
\* the stored keyword sequence
C6_SearchWindowConsecutive ==
  Searched =>
    /\ Len(Top.cands) <= MAX_CANDIDATES
    /\ Top.cands # <<>> =>
         \E i \in DOMAIN StoredKeys :
            \A j \in DOMAIN Top.cands :
               /\ i + j - 1 <= Len(StoredKeys)
               /\ Top.cands[j].offset = StoredKeys[i + j - 1].offset
               /\ Top.cands[j].s = StoredKeys[i + j - 1].key

\* C7: when the one definition read for a phrase is a link to a keyword, the
\* lookup of the phrase yields what the lookup of that keyword yields
C7_LinkYieldsTarget ==
  (/\ ext = "mdx" /\ Top.kind = "mdx" /\ Top.st = "done"
   /\ Len(Top.slots) = 1 /\ Top.slots[1].child # 0)
     => /\ Top.out = calls[Top.slots[1].child].out
        /\ Top.val = calls[Top.slots[1].child].val

\* C8: link chains are depth-guarded: no lookup follows links deeper than 8
C8_LinkDepthGuarded ==
  \A c \in DOMAIN calls : calls[c].depth <= 8

(***************************************************************************)
(* SpecScan: Scanner(input).readBlock(len, expectedBufSize, decryptor) on  *)
(* one data block, and a read from the scanner it returns.  A block is 8   *)
(* bytes of preamble (the compression tag first) and a payload.  pako and  *)
(* lzo are not part of the source: inflate yields the content of a deflate *)
(* payload and throws on any other, lzo.decompress yields the content of   *)
(* an LZO payload and on any other throws or yields bytes that are not the *)
(* content.                                                                *)
(***************************************************************************)
Tags == 0..3                           \* first byte of a block; 3 is no codec
Codecs == {0, 1, 2}                    \* none, LZO, deflate
Contents == UNION {[1..n -> {0, 65}] : n \in 0..3}
Garbage == {<<>>, <<255>>}

Preamble(tag) == <<tag, 0, 0, 0, 0, 0, 0, 0>>

NoScan ==
  [v2 |-> FALSE, tag |-> 0, codec |-> 0, content |-> <<>>, encrypted |-> FALSE,
   decryptor |-> FALSE, st |-> "unused", offset |-> 0, data |-> <<>>,
   called |-> "none", error |-> "none", raw |-> <<>>]

InitScan ==
  /\ \E v2 \in BOOLEAN, tag \in Tags, codec \in Codecs, content \in Contents,
        encrypted \in BOOLEAN :
       /\ tag \in Codecs => codec = tag
       /\ encrypted => tag # 0
       /\ scan = [NoScan EXCEPT !.v2 = v2, !.tag = tag, !.codec = codec,
                                !.content = content, !.encrypted = encrypted,
                                !.decryptor = encrypted, !.st = "fresh"]
  /\ ext = "mdx"
  /\ attrs = [KeyCaseSensitive |-> FALSE, StripKey |-> FALSE]
  /\ KEY_INDEX = <<>>
  /\ RECORD_BLOCK_TABLE = <<>>
  /\ KEY_TABLE_ready = FALSE
  /\ file = "block"
  /\ _last_keys = NoKeys
  /\ calls = [i \in 1..MaxCalls |-> Blank]
  /\ tasks = <<>>
  /\ parse = "unused"
  /\ TableUnused

\* Scanner.readBlock: what the scanner it returns reads (data, offset), the
\* decompressor the payload was handed to, and the error thrown
readBlock(sc, throws, garbage) ==
  LET comp_type == sc.tag
      plain == sc.decryptor = sc.encrypted
  IN  IF comp_type = 0
      THEN [sc EXCEPT !.st = "read", !.data = Preamble(sc.tag) \o sc.content,
                      !.offset = IF sc.v2 THEN 8 ELSE 0]
      ELSE IF comp_type = 2
      THEN IF sc.codec = 2 /\ plain
           THEN [sc EXCEPT !.st = "read", !.called = "pako", !.data = sc.content]
           ELSE [sc EXCEPT !.st = "threw", !.called = "pako", !.error = "CodecError"]
      ELSE IF sc.codec = 1 /\ plain
           THEN [sc EXCEPT !.st = "read", !.called = "lzo", !.data = sc.content]
           ELSE IF throws
                THEN [sc EXCEPT !.st = "threw", !.called = "lzo",
                                !.error = "CodecError"]
                ELSE [sc EXCEPT !.st = "read", !.called = "lzo", !.data = garbage]

ScanUnchanged ==
  UNCHANGED <<ext, attrs, KEY_INDEX, RECORD_BLOCK_TABLE, KEY_TABLE_ready, KEY_TABLE,
              MurmurHash3, result, file, _last_keys, calls, tasks, parse>>

ReadBlock ==
  /\ scan.st = "fresh"
  /\ \E throws \in BOOLEAN, garbage \in Garbage :
       scan' = readBlock(scan, throws, garbage)
  /\ ScanUnchanged

\* Scanner.readRaw(len) on the scanner readBlock returned
readRaw(sc, len) ==
  [sc EXCEPT !.st = "raw",
             !.raw = SubSeq(sc.data, sc.offset + 1,
                            IF len = UNDEFINED THEN Len(sc.data)
                            ELSE Min(sc.offset + len, Len(sc.data))),
             !.offset = IF len = UNDEFINED THEN Len(sc.data) ELSE sc.offset + len]

ReadRaw(len) ==
  /\ scan.st = "read"
  /\ scan' = readRaw(scan, len)
  /\ ScanUnchanged

NextScan ==
  \/ ReadBlock
  \/ \E len \in {UNDEFINED, 1, 2} : ReadRaw(len)

SpecScan == InitScan /\ [][NextScan]_vars

\* C10: readBlock on a block whose compression tag is none of 0, 1, 2 fails
\* with MalformedBlock and the block is never handed to a decompressor
C10_UnknownTagMalformed ==
  (scan.tag \notin Codecs /\ scan.st # "fresh")
     => scan.st = "threw" /\ scan.error = "MalformedBlock" /\ scan.called = "none"

\* C27: readBlock passes over the 8 bytes before the payload in version 1
\* and version 2 files alike: for tag 0 the scanner it returns stands 8
\* bytes further, at the first byte of the payload; for a compressed block
\* it returns a scanner at offset 0 over the decompressed bytes.
C27_PreambleConsumed ==
  scan.st = "read"
     => IF scan.tag = 0
        THEN /\ scan.offset = 8
             /\ SubSeq(scan.data, scan.offset + 1, Len(scan.data)) = scan.content
        ELSE scan.offset = 0

(***************************************************************************)
(* SpecOpen: parse_mdict(file, ext), one action per callback of its        *)
(* promise chain.  The file is described by its header attributes and its  *)
(* content.  A file whose keyword header is encrypted (Encrypted bit 0)    *)
(* holds ciphertext where the keyword summary is read; the files of the    *)
(* model are those whose ciphertext makes read_keyword_index throw.        *)
(***************************************************************************)
NoAttrs ==
  [KeyCaseSensitive |-> FALSE, StripKey |-> FALSE, Encrypted |-> 0,
   GeneratedByEngineVersion |-> 0]

NoSummary ==
  [num_blocks |-> 0, num_entries |-> 0, key_index_comp_len |-> 0,
   key_blocks_len |-> 0, len |-> 0, garbled |-> FALSE]

NoParse ==
  [stage |-> "head", pos |-> 0, len |-> 0, out |-> "pending", reason |-> "none",
   v2 |-> FALSE, decryptor |-> FALSE, summary |-> NoSummary, block_pos |-> 0,
   handle |-> "none"]

\* the dictionaries of the files that are opened: no, one and two key blocks
OpenDictionaries(e, a) ==
  {d \in Dictionaries :
     /\ d.ext = e /\ d.a = a /\ d.links = <<>>
     /\ \/ d.keys = <<>>
        \/ /\ Len(d.keys) = 2 /\ d.keys[1] # d.keys[2] }

\* keyword summary and keyword index, in bytes
KeywordSummaryLen(v2) == IF v2 THEN 44 ELSE 16
KeyIndexLen(f) == 8 + 8 * Len(f.body.keyBlocks)

OpenFile(e, Encrypted, v2, a, d) ==
  [ext |-> e, Encrypted |-> Encrypted, v2 |-> v2, a |-> a, body |-> FileAt(d, v2)]

HeaderLen(f) == KeyBlocksStart - 8 - KeywordSummaryLen(f.v2) - KeyIndexLen(f)

InitOpen ==
  /\ \E e \in {"mdx", "mdd"}, Encrypted \in 0..3, v2 \in BOOLEAN, a \in AttrSets :
       /\ ~v2 => Encrypted \in {0, 1}
       /\ \E d \in OpenDictionaries(e, a) : file = OpenFile(e, Encrypted, v2, a, d)
       /\ ext = e
  /\ attrs = NoAttrs
  /\ KEY_INDEX = <<>>
  /\ RECORD_BLOCK_TABLE = <<>>
  /\ KEY_TABLE_ready = FALSE
  /\ parse = NoParse
  /\ _last_keys = NoKeys
  /\ calls = [i \in 1..MaxCalls |-> Blank]
  /\ tasks = <<>>
  /\ scan = "unused"
  /\ TableUnused

OpenUnchanged ==
  UNCHANGED <<ext, file, KEY_TABLE_ready, KEY_TABLE, MurmurHash3, result, _last_keys,
              calls, tasks, scan>>

\* _slice(0, 4).exec(read_file_head), and the slice of the header section
FileHeadRead ==
  /\ parse.stage = "head"
  /\ parse' = [parse EXCEPT !.stage = "header", !.pos = 4, !.len = HeaderLen(file)]
  /\ UNCHANGED <<attrs, KEY_INDEX, RECORD_BLOCK_TABLE>>
  /\ OpenUnchanged

\* read_header_sect: the attributes, then config(); the keyword index
\* decryptor is set when Encrypted & 0x02, nothing looks at bit 0
HeaderSectRead ==
  /\ parse.stage = "header"
  /\ attrs' = [KeyCaseSensitive |-> file.a.KeyCaseSensitive,
               StripKey |-> file.a.StripKey,
               Encrypted |-> file.Encrypted,
               GeneratedByEngineVersion |-> IF file.v2 THEN 2 ELSE 1]
  /\ parse' = [parse EXCEPT !.stage = "summary",
                            !.v2 = attrs'.GeneratedByEngineVersion >= 2,
                            !.decryptor = (attrs'.Encrypted \div 2) % 2 = 1,
                            !.len = parse.len + 4]
  /\ UNCHANGED <<KEY_INDEX, RECORD_BLOCK_TABLE>>
  /\ OpenUnchanged

\* read_keyword_summary: the numbers at the head of the keyword section,
\* ciphertext when the keyword header is encrypted
read_keyword_summary(f, v2) ==
  [num_blocks |-> Len(f.body.keyBlocks),
   num_entries |-> Len(Concat([b \in DOMAIN f.body.keyBlocks |->
                                 f.body.keyBlocks[b].entries])),
   key_index_comp_len |-> KeyIndexLen(f),
   key_blocks_len |-> Sum([b \in DOMAIN f.body.keyBlocks |-> f.body.keyBlocks[b].size]),
   len |-> KeywordSummaryLen(v2),
   garbled |-> f.Encrypted % 2 = 1]

KeywordSummaryRead ==
  /\ parse.stage = "summary"
  /\ parse' = [parse EXCEPT !.stage = "index", !.pos = parse.pos + parse.len,
                            !.summary = read_keyword_summary(file, parse.v2)]
  /\ UNCHANGED <<attrs, KEY_INDEX, RECORD_BLOCK_TABLE>>
  /\ OpenUnchanged

\* pos += keyword_summary.len, and the slice of key index and key blocks
KeywordIndexSliced ==
  /\ parse.stage = "index"
  /\ parse' = [parse EXCEPT !.stage = "index read",
                            !.pos = parse.pos + parse.summary.len,
                            !.len = parse.summary.key_index_comp_len
                                      + parse.summary.key_blocks_len]
  /\ UNCHANGED <<attrs, KEY_INDEX, RECORD_BLOCK_TABLE>>
  /\ OpenUnchanged

\* read_keyword_index, KEY_INDEX = keyword_index; an exception of the
\* scanner or of the decompressor rejects the promise of parse_mdict
KeywordIndexRead ==
  /\ parse.stage = "index read"
  /\ IF parse.summary.garbled
     THEN /\ \E reason \in {"RangeError", "CodecError"} :
               parse' = [parse EXCEPT !.stage = "failed", !.out = "rejected",
                                      !.reason = reason]
          /\ UNCHANGED KEY_INDEX
     ELSE /\ KEY_INDEX' = read_keyword_index(file.body,
                             parse.pos + parse.summary.key_index_comp_len)
          /\ parse' = [parse EXCEPT !.stage = "record"]
  /\ UNCHANGED <<attrs, RECORD_BLOCK_TABLE>>
  /\ OpenUnchanged

\* _slice(pos += len, 32).exec(read_record_summary, pos), and the slice of
\* the record block index
RecordSummaryRead ==
  /\ parse.stage = "record"
  /\ LET pos == parse.pos + parse.len
         index_len == RecordIndexEntryLen(parse.v2) * Len(file.body.recordBlocks)
         len == RecordSummaryLen(parse.v2)
     IN  parse' = [parse EXCEPT !.stage = "record read", !.pos = pos + len,
                                !.len = index_len,
                                !.block_pos = pos + index_len + len]
  /\ UNCHANGED <<attrs, KEY_INDEX, RECORD_BLOCK_TABLE>>
  /\ OpenUnchanged

\* read_record_block fills RECORD_BLOCK_TABLE
RecordBlockRead ==
  /\ parse.stage = "record read"
  /\ RECORD_BLOCK_TABLE' = read_record_block(RecordIndexOf(file.body), parse.block_pos)
  /\ parse' = [parse EXCEPT !.stage = "parsed"]
  /\ UNCHANGED <<attrs, KEY_INDEX>>
  /\ OpenUnchanged

\* a chain that resolves without waiting for the record block index
ResolvedEarly ==
  /\ parse.stage = "record read"
  /\ parse' = [parse EXCEPT !.stage = "done", !.out = "fulfilled", !.handle = ext]
  /\ UNCHANGED <<attrs, KEY_INDEX, RECORD_BLOCK_TABLE>>
  /\ OpenUnchanged

\* '-- parse done --': resolve(LOOKUP[ext])
ParseDone ==
  /\ parse.stage = "parsed"
  /\ parse' = [parse EXCEPT !.stage = "done", !.out = "fulfilled", !.handle = ext]
  /\ UNCHANGED <<attrs, KEY_INDEX, RECORD_BLOCK_TABLE>>
  /\ OpenUnchanged

\* the stages at which the chain waits for a file read
ReadStages == {"head", "header", "index read", "record", "record read"}

\* the FileReader of a slice fires error instead of load: sliceThen sets
\* reader.onload only and its promise has no reject, so the promise of the
\* slice, and the chain behind it, stays pending
ReadFailed ==
  /\ parse.stage \in ReadStages
  /\ parse' = [parse EXCEPT !.stage = "stalled"]
  /\ UNCHANGED <<attrs, KEY_INDEX, RECORD_BLOCK_TABLE>>
  /\ OpenUnchanged

NextOpen ==
  \/ ReadFailed
  \/ FileHeadRead
  \/ HeaderSectRead
  \/ KeywordSummaryRead
  \/ KeywordIndexSliced
  \/ KeywordIndexRead
  \/ RecordSummaryRead
  \/ RecordBlockRead
  \/ ParseDone

SpecOpen == InitOpen /\ [][NextOpen]_vars

\* C9: open on a file whose Encrypted attribute has bit 0 set fails with a
\* Decryption error
C9_HeaderEncryptionRejected ==
  (file.Encrypted % 2 = 1 /\ parse.out # "pending")
     => parse.out = "rejected" /\ parse.reason = "Decryption"

\* every callback of the chain that can run does run
SpecOpenLive == SpecOpen /\ WF_vars(NextOpen)

\* C12: open always eventually settles: it yields the lookup handle or fails
\* with an error delivered to the caller, also when a file read fails
C12_OpenSettles == <>(parse.out # "pending")

\* the first byte after the keyword index: the 4 bytes of the header
\* length, the header and its checksum, the keyword summary (16 bytes in
\* version 1, 44 in version 2) and the keyword index
AfterKeywordIndex ==
  4 + HeaderLen(file) + 4 + (IF file.v2 THEN 44 ELSE 16)
    + read_keyword_summary(file, file.v2).key_index_comp_len

\* C20: after open has read the keyword index, entry i of KEY_INDEX
\* (counted from 0) has index i and as offset the first byte after the
\* keyword index plus the comp_size of the entries before it; and the
\* record summary is read at that first byte plus key_blocks_len.
C20_DirectoryOffsets ==
  /\ \A b \in DOMAIN KEY_INDEX :
        /\ KEY_INDEX[b].index = b - 1
        /\ KEY_INDEX[b].offset =
             AfterKeywordIndex + Sum([k \in 1..(b - 1) |-> KEY_INDEX[k].comp_size])
  /\ parse.stage \in {"record read", "parsed", "done"}
        => parse.block_pos - parse.len - RecordSummaryLen(file.v2)
             = AfterKeywordIndex + read_keyword_summary(file, file.v2).key_blocks_len

\* a version 2 file with two key blocks whose record summary has been read
C20_TwoBlocksRead ==
  /\ Len(KEY_INDEX) = 2
  /\ file.v2
  /\ parse.stage = "record read"

\* the stages of open in the order of the promise chain
StageOrder ==
  <<"head", "header", "summary", "index", "index read", "record", "record read",
    "parsed", "done">>
Rank(stage) == CHOOSE i \in DOMAIN StageOrder : StageOrder[i] = stage

\* C29: open runs its stages one after the other in the order read head,
\* read header, keyword summary, keyword index, record summary, record
\* block index, ready: a step either fails or goes to the next stage, the
\* record block table is filled by the step that parses the record block
\* index, and the handle is yielded only when the table holds all its
\* num_blocks + 1 entries.
C29_StagesInOrder ==
  [][/\ parse'.stage \notin {"failed", "stalled"}
          => Rank(parse'.stage) = Rank(parse.stage) + 1
     /\ RECORD_BLOCK_TABLE' # RECORD_BLOCK_TABLE => parse.stage = "record read"
     /\ parse'.handle # "none"
          => Len(RECORD_BLOCK_TABLE') = Len(file.body.recordBlocks) + 1]_vars

\* the handle has been yielded for a file with record blocks
C29_HandleYielded ==
  /\ parse.stage = "done"
  /\ parse.handle = ext
  /\ Len(file.body.recordBlocks) >= 1
  /\ Len(RECORD_BLOCK_TABLE) = Len(file.body.recordBlocks) + 1

(***************************************************************************)
(* Two calls on the handle of one mdx file.  In SpecAgain the second call  *)
(* is made after the first has settled, in SpecPair it is made while the   *)
(* first waits for a file read.  Call 1 is the first call, call 2 the      *)
(* second.  The dictionaries have no @@@LINK= records.                     *)
(***************************************************************************)
Kinds == {"mdx", "search"}

TwiceDictionaries == {d \in Dictionaries : d.ext = "mdx" /\ d.links = <<>>}

InitTwice ==
  /\ \E d \in TwiceDictionaries :
       LET f == FileOf(d)
       IN  /\ ext = d.ext
           /\ attrs = d.a
           /\ file = f
           /\ KEY_INDEX = KeyIndexOf(f)
           /\ RECORD_BLOCK_TABLE = read_record_block(RecordIndexOf(f), f.block_pos)
  /\ KEY_TABLE_ready = FALSE
  /\ _last_keys = NoKeys
  /\ calls = [i \in 1..MaxCalls |-> Blank]
  /\ tasks = <<>>
  /\ parse = "opened"
  /\ scan = "unused"
  /\ TableUnused

\* the handle is called: LOOKUP.mdx(phrase) or LOOKUP.mdx.search(phrase)
Invoke(w, c, kind, phrase) ==
  IF kind = "search" THEN search(w, c, phrase)
  ELSE LOOKUP_mdx(w, c, phrase, UNDEFINED, 0, 0)

CallFirst(kind, phrase) ==
  /\ calls[1].st = "idle"
  /\ Becomes(Invoke(World, 1, kind, phrase))

\* the second call, made when the first has settled
CallAfter(kind, phrase) ==
  /\ calls[1].st = "done" /\ calls[2].st = "idle" /\ tasks = <<>>
  /\ Becomes(Invoke(World, 2, kind, phrase))

NextAgain ==
  \/ \E kind \in Kinds, phrase \in MdxPhrases : CallFirst(kind, phrase)
  \/ \E kind \in Kinds, phrase \in MdxPhrases : CallAfter(kind, phrase)
  \/ KeysLoaded
  \/ NextKeysLoaded
  \/ DefinitionRead

SpecAgain == InitTwice /\ [][NextAgain]_vars

\* the callback at the head of the queue runs
Step(w, lib) ==
  LET t == Head(w.tasks)
      p == [w EXCEPT !.tasks = Tail(@)]
  IN  IF t.slot = 0
      THEN IF w.calls[t.c].st = "keys" THEN KeysThen(p, t, lib)
           ELSE NextKeysThen(p, t, lib)
      ELSE DefinitionThen(p, t, lib)

\* the callbacks run until none is left
RECURSIVE Run(_, _)
Run(w, lib) == IF w.tasks = <<>> THEN w ELSE Run(Step(w, lib), lib)

\* a handle on which no call was made yet
Cold == [calls |-> [i \in 1..MaxCalls |-> Blank], tasks |-> <<>>, last |-> NoKeys]

\* the call as it ends when it is the only call made on the handle
Alone(call) == Run(Invoke(Cold, 1, call.kind, call.phrase), TRUE).calls[1]

\* what the caller gets: the settlement, and the keys of a search
Outcome(call) == <<call.out, call.val, IF call.kind = "search" THEN call.cands ELSE <<>> >>

\* the call looks up a keyword that is stored
OfPresentKeyword(call) ==
  /\ call.kind = "mdx"
  /\ \E i \in DOMAIN StoredKeys : toLowerCase(StoredKeys[i].key) = call.word

Failed(call) == call.st = "done" /\ call.out \in {"rejected", "threw"}

\* C11: after a lookup or search that failed, the lookup of a present
\* keyword returns the same result as if the failed call had never been made
C11_UsableAfterError ==
  (Failed(calls[1]) /\ calls[2].st = "done" /\ OfPresentKeyword(calls[2]))
     => Outcome(calls[2]) = Outcome(Alone(calls[2]))

(***************************************************************************)
(* SpecPair: the second call is made while the first waits for a file      *)
(* read.  The reads of one call complete in the order they were issued,    *)
(* the reads of the two calls in any order.                                *)
(***************************************************************************)
CallMeanwhile(kind, phrase) ==
  /\ calls[1].st \notin {"idle", "done"} /\ calls[2].st = "idle"
  /\ tasks # <<>> /\ Head(tasks).io
  /\ Becomes(Invoke(World, 2, kind, phrase))

\* the read issued later, by the other call, completes first
Overtake ==
  /\ Len(tasks) >= 2 /\ tasks[1].io /\ tasks[2].io /\ tasks[1].c # tasks[2].c
  /\ tasks' = <<tasks[2], tasks[1]>> \o SubSeq(tasks, 3, Len(tasks))
  /\ UNCHANGED <<ext, attrs, KEY_INDEX, RECORD_BLOCK_TABLE, KEY_TABLE_ready, file,
                 _last_keys, calls, parse, scan>>
  /\ TableUnchanged

NextPair ==
  \/ \E kind \in Kinds, phrase \in MdxPhrases : CallFirst(kind, phrase)
  \/ \E kind \in Kinds, phrase \in MdxPhrases : CallMeanwhile(kind, phrase)
  \/ Overtake
  \/ KeysLoaded
  \/ NextKeysLoaded
  \/ DefinitionRead

SpecPair == InitTwice /\ [][NextPair]_vars

\* C13: of two calls started before either has finished, each returns the
\* result it would return if run alone
C13_ConcurrentIndependent ==
  \A c \in {1, 2} :
     (calls[2].kind # "none" /\ calls[c].st = "done")
        => Outcome(calls[c]) = Outcome(Alone(calls[c]))

(***************************************************************************)
(* The key table (createKeyTable).  view is an Uint32Array of (hash code,  *)
(* key order) pairs laid over the Float64Array arr, data an Uint32Array of *)
(* record offsets in key order.  The model keeps view as a sequence of     *)
(* pairs, pair i of the code at place i + 1, and data as a sequence.       *)
(* MurmurHash3.hashString is not part of the source: it is some function   *)
(* from strings to hash codes.                                             *)
(***************************************************************************)
HashCodes == {1, 2, 3}

\* hash(str): MurmurHash3.hashString(str.toLowerCase(), 32, seed)
hash(str) == MurmurHash3[toLowerCase(str)]

NoTable ==
  [allocated |-> FALSE, pos |-> 0, order |-> 0, view |-> <<>>, data |-> <<>>]

\* alloc(len)
alloc(T, len) ==
  [T EXCEPT !.allocated = TRUE,
            !.view = [i \in 1..len |-> <<0, 0>>],
            !.data = [i \in 1..len |-> 0]]

\* put(offset, key)
put(T, offset, key) ==
  [T EXCEPT !.data[T.order + 1] = offset,
            !.view[(T.pos \div 2) + 1] = <<hash(key), T.order>>,
            !.pos = T.pos + 2,
            !.order = T.order + 1]

\* pack(): the arrays cut to what was put
pack(T) ==
  IF T.order < Len(T.data)
  THEN [T EXCEPT !.view = SubSeq(T.view, 1, T.pos \div 2),
                 !.data = SubSeq(T.data, 1, T.order)]
  ELSE T

\* the orders Array.prototype.sort may leave the pairs in: ascending hash
\* codes, pairs with equal hash codes in any order
Sorted(view) ==
  {v \in [DOMAIN view -> {view[i] : i \in DOMAIN view}] :
     /\ \A i \in DOMAIN view : \E j \in DOMAIN v : v[j] = view[i]
     /\ \A i \in 1..(Len(v) - 1) : v[i][1] <= v[i + 1][1]}

\* view[i << 1], undefined outside the array
ViewHash(T, i) == IF i >= 0 /\ i < Len(T.view) THEN T.view[i + 1][1] ELSE UNDEFINED

\* find: the first inner loop steps i down to the first pair of the hash code
RECURSIVE RunStart(_, _, _)
RunStart(T, hashcode, i) ==
  IF ViewHash(T, i - 1) # hashcode THEN i ELSE RunStart(T, hashcode, i - 1)

\* find: the second inner loop collects {offset, size} of every pair of the
\* hash code
RECURSIVE Collect(_, _, _)
Collect(T, hashcode, i) ==
  LET at == T.view[i + 1][2]
      info == [offset |-> T.data[at + 1],
               size |-> IF at < Len(T.data) - 2
                        THEN T.data[at + 2] - T.data[at + 1]
                        ELSE UNDEFINED]
  IN  <<info>> \o (IF ViewHash(T, i + 1) # hashcode THEN <<>>
                   ELSE Collect(T, hashcode, i + 1))

NoneFound == [found |-> FALSE, infos |-> <<>>]

\* find: the binary search loop
RECURSIVE KeyFindLoop(_, _, _, _)
KeyFindLoop(T, hashcode, lo, hi) ==
  LET i == (lo + hi) \div 2
      val == ViewHash(T, i)
  IN  IF hashcode = val
      THEN [found |-> TRUE, infos |-> Collect(T, hashcode, RunStart(T, hashcode, i))]
      ELSE IF hi = lo \/ i = hi \/ i = lo THEN NoneFound
      ELSE IF hashcode < val THEN KeyFindLoop(T, hashcode, lo, i)
           ELSE KeyFindLoop(T, hashcode, i, hi)

\* KEY_TABLE.find(key)
KeyFind(T, key) == KeyFindLoop(T, hash(key), 0, Len(T.view) - 1)

(***************************************************************************)
(* SpecTable: the key table is loaded as willLoadKeyTable loads it, and    *)
(* then asked: by find, and by the express branches of LOOKUP.mdx and      *)
(* LOOKUP.mdd, which run once the table is ready.                          *)
(***************************************************************************)
TableDictionaries == {d \in Dictionaries : d.cuts = {} /\ d.links = <<>>}

\* the phrases of express lookups: "a", "B-", "b", "A " and "\img\a.png",
\* "/a", "/z"
TablePhrases(e) ==
  IF e = "mdx" THEN {<<97>>, <<66, 45>>, <<98>>, <<65, 32>>}
  ELSE {ImgPath, <<47, 97>>, <<47, 122>>}

\* the word LOOKUP looks for
WordOf(e, phrase) ==
  IF e = "mdx" THEN toLowerCase(trim(phrase))
  ELSE <<92>> \o StripSlash(toLowerCase(trim(phrase)))

\* the keys find is asked for: the stored words and the words of the phrases
TableQueries(e) == WordsOf(e) \cup {WordOf(e, p) : p \in TablePhrases(e)}

\* every keyword of the file in stored order, as read_key_block meets them
RECURSIVE AllEntries(_)
AllEntries(keyBlocks) ==
  IF keyBlocks = <<>> THEN <<>>
  ELSE Head(keyBlocks).entries \o AllEntries(Tail(keyBlocks))

NoResult ==
  [op |-> "none", key |-> <<>>, offset |-> UNDEFINED, hashcode |-> UNDEFINED,
   found |-> FALSE, infos |-> <<>>, out |-> "none"]

InitTable ==
  /\ \E d \in TableDictionaries :
       LET f == FileOf(d)
       IN  /\ ext = d.ext
           /\ attrs = d.a
           /\ file = f
           /\ KEY_INDEX = KeyIndexOf(f)
           /\ RECORD_BLOCK_TABLE = read_record_block(RecordIndexOf(f), f.block_pos)
           /\ MurmurHash3 \in [{toLowerCase(k) : k \in TableQueries(d.ext)} -> HashCodes]
  /\ KEY_TABLE_ready = FALSE
  /\ KEY_TABLE = NoTable
  /\ result = NoResult
  /\ _last_keys = NoKeys
  /\ calls = [i \in 1..MaxCalls |-> Blank]
  /\ tasks = <<>>
  /\ parse = "opened"
  /\ scan = "unused"

TableOnly ==
  UNCHANGED <<ext, attrs, KEY_INDEX, RECORD_BLOCK_TABLE, MurmurHash3, file,
              _last_keys, calls, tasks, parse, scan>>

\* willLoadKeyTable: KEY_TABLE.alloc(keyword_summary.num_entries)
TableAlloc ==
  /\ ~KEY_TABLE.allocated
  /\ KEY_TABLE' = alloc(KEY_TABLE, Len(AllEntries(file.keyBlocks)))
  /\ UNCHANGED <<KEY_TABLE_ready, result>>
  /\ TableOnly

\* read_key_block: KEY_TABLE.put(offset, key) for the next keyword
TablePut ==
  /\ KEY_TABLE.allocated
  /\ ~KEY_TABLE_ready
  /\ KEY_TABLE.order < Len(AllEntries(file.keyBlocks))
  /\ LET e == AllEntries(file.keyBlocks)[KEY_TABLE.order + 1]
     IN  KEY_TABLE' = put(KEY_TABLE, e.offset, e.key)
  /\ UNCHANGED <<KEY_TABLE_ready, result>>
  /\ TableOnly

\* KEY_TABLE.sort(): pack, sort the pairs by hash code, ready
TableSort ==
  /\ KEY_TABLE.allocated
  /\ ~KEY_TABLE_ready
  /\ KEY_TABLE.order = Len(AllEntries(file.keyBlocks))
  /\ \E v \in Sorted(pack(KEY_TABLE).view) :
       KEY_TABLE' = [pack(KEY_TABLE) EXCEPT !.view = v]
  /\ KEY_TABLE_ready' = TRUE
  /\ UNCHANGED result
  /\ TableOnly

\* KEY_TABLE.find(key)
TableFind(key) ==
  /\ KEY_TABLE_ready
  /\ LET r == KeyFind(KEY_TABLE, key)
     IN  result' = [NoResult EXCEPT !.op = "find", !.key = key,
                                    !.hashcode = hash(key),
                                    !.found = r.found, !.infos = r.infos]
  /\ UNCHANGED <<KEY_TABLE, KEY_TABLE_ready>>
  /\ TableOnly

\* LOOKUP.mdx, express mode: infos are the keyinfos mapped through findWord
ExpressMdx(phrase, offset) ==
  /\ ext = "mdx"
  /\ KEY_TABLE_ready
  /\ LET word == WordOf("mdx", phrase)
         r == KeyFind(KEY_TABLE, word)
     IN  result' =
           [NoResult EXCEPT
              !.op = "mdx", !.key = word, !.offset = offset,
              !.hashcode = hash(word), !.found = r.found,
              !.infos = IF offset # UNDEFINED
                        THEN SelectSeq(r.infos, LAMBDA v : v.offset = offset)
                        ELSE r.infos,
              !.out = IF r.found THEN "harvest" ELSE "*WORD NOT FOUND*"]
  /\ UNCHANGED <<KEY_TABLE, KEY_TABLE_ready>>
  /\ TableOnly

\* LOOKUP.mdd, express mode: KEY_TABLE.find(word)[0] goes to findResource;
\* indexing the undefined of a word not found throws
ExpressMdd(phrase) ==
  /\ ext = "mdd"
  /\ KEY_TABLE_ready
  /\ LET word == WordOf("mdd", phrase)
         r == KeyFind(KEY_TABLE, word)
     IN  result' =
           [NoResult EXCEPT
              !.op = "mdd", !.key = word, !.hashcode = hash(word),
              !.found = r.found,
              !.infos = IF r.found THEN <<r.infos[1]>> ELSE <<>>,
              !.out = IF r.found THEN "findResource" ELSE "TypeError"]
  /\ UNCHANGED <<KEY_TABLE, KEY_TABLE_ready>>
  /\ TableOnly

NextTable ==
  \/ TableAlloc
  \/ TablePut
  \/ TableSort
  \/ \E key \in TableQueries(ext) : TableFind(key)
  \/ \E phrase \in TablePhrases(ext), offset \in LookupOffsets : ExpressMdx(phrase, offset)
  \/ \E phrase \in TablePhrases(ext) : ExpressMdd(phrase)

SpecTable == InitTable /\ [][NextTable]_vars

\* the keywords the table was loaded with
TableEntries == {AllEntries(file.keyBlocks)[i] : i \in DOMAIN AllEntries(file.keyBlocks)}

\* C14: in express mode a lookup of a stored keyword reads the records of
\* that keyword only, also when another stored keyword has the same hash
\* code: every keyinfo handed to findWord or findResource is the one of a
\* stored keyword that, lower-cased, is the word looked for.
C14_ExpressVerifiesKeys ==
  (/\ result.op \in {"mdx", "mdd"}
   /\ result.offset = UNDEFINED
   /\ \E e \in TableEntries : toLowerCase(e.key) = result.key)
     => \A k \in DOMAIN result.infos :
           \A e \in TableEntries :
              e.offset = result.infos[k].offset => toLowerCase(e.key) = result.key

\* C16: once the table is allocated, filled and sorted, find(key) for a key
\* that was put returns a list, and for every entry put with that key the
\* list holds a keyinfo with the entry's record offset, wherever the key's
\* hash code lies in the sorted array.
C16_FindComplete ==
  result.op = "find"
     => \A e \in TableEntries :
           e.key = result.key
              => /\ result.found
                 /\ \E k \in DOMAIN result.infos : result.infos[k].offset = e.offset

\* the place of a record offset among the keywords, counted from 0
OrdinalOf(offset) ==
  CHOOSE o \in 0..(Len(AllEntries(file.keyBlocks)) - 1) :
     AllEntries(file.keyBlocks)[o + 1].offset = offset

\* C17: every keyinfo find returns has a size except the one of the last
\* keyword: at ordinal o < n - 1 the size is offset[o + 1] - offset[o], at
\* ordinal n - 1 it is absent.
C17_SizeButLast ==
  result.op = "find"
     => \A k \in DOMAIN result.infos :
           LET all == AllEntries(file.keyBlocks)
               o == OrdinalOf(result.infos[k].offset)
           IN  result.infos[k].size =
                 IF o < Len(all) - 1 THEN all[o + 2].offset - all[o + 1].offset
                 ELSE UNDEFINED

\* the hash code the table holds for the keyword of ordinal o
StoredHash(o) ==
  LET i == CHOOSE j \in DOMAIN KEY_TABLE.view : KEY_TABLE.view[j][2] = o
  IN  KEY_TABLE.view[i][1]

\* C18: the table hashes adapted keys: the hash code stored for a keyword
\* and the hash code find computes for a query are equal whenever the
\* keyword and the query have the same adapted form under the dictionary's
\* KeyCaseSensitive and StripKey attributes.
C18_HashOfAdapted ==
  result.op = "find"
     => \A o \in 0..(Len(AllEntries(file.keyBlocks)) - 1) :
           AdaptWith(attrs, AllEntries(file.keyBlocks)[o + 1].key)
                = AdaptWith(attrs, result.key)
              => StoredHash(o) = result.hashcode

(***************************************************************************)
(* SpecIndex: the record block table on its own, built by                  *)
(* read_record_block from a record block index and asked by find.  The     *)
(* integers of the checker end below 2^32, so the sizes here are multiples *)
(* of 2^30 bytes and every number of SpecIndex counts units of 2^30 bytes: *)
(* what an Uint32Array keeps of a sum is the sum modulo 4 units.           *)
(***************************************************************************)
MaxIndex == 2                \* record blocks in an index
Wrap32 == 4                  \* 2^32 bytes, in units of 2^30 bytes
BlockSizes == {0, 1, 2}      \* comp_size and decomp_size of a block, in units

\* a value stored in an Uint32Array, in units
Uint32Units(n) == n % Wrap32

\* read_record_block, in units: alloc(size + 1), put(p0, p1) per block, and
\* the tail
RECURSIVE PutRecordUnits(_, _, _, _)
PutRecordUnits(record_index, i, p0, p1) ==
  IF i > Len(record_index) THEN << <<Uint32Units(p0), Uint32Units(p1)>> >>
  ELSE << <<Uint32Units(p0), Uint32Units(p1)>> >>
       \o PutRecordUnits(record_index, i + 1,
                         p0 + record_index[i].comp_size,
                         p1 + record_index[i].decomp_size)

NoFind == [op |-> "none", keyAt |-> 0, block |-> NoBlock]

InitIndex ==
  /\ \E n \in 0..MaxIndex :
       \E record_index \in [1..n -> [comp_size : BlockSizes, decomp_size : BlockSizes]] :
          file = [record_index |-> record_index, block_pos |-> 1]
  /\ RECORD_BLOCK_TABLE = <<>>
  /\ result = NoFind
  /\ ext = "mdx"
  /\ attrs = NoAttrs
  /\ KEY_INDEX = <<>>
  /\ KEY_TABLE_ready = FALSE
  /\ KEY_TABLE = "unused"
  /\ MurmurHash3 = "unused"
  /\ _last_keys = NoKeys
  /\ calls = [i \in 1..MaxCalls |-> Blank]
  /\ tasks = <<>>
  /\ parse = "opened"
  /\ scan = "unused"

IndexOnly ==
  UNCHANGED <<ext, attrs, KEY_INDEX, KEY_TABLE_ready, KEY_TABLE, MurmurHash3,
              file, _last_keys, calls, tasks, parse, scan>>

\* read_record_block(input, record_summary)
IndexRead ==
  /\ RECORD_BLOCK_TABLE = <<>>
  /\ RECORD_BLOCK_TABLE' = PutRecordUnits(file.record_index, 1, file.block_pos, 0)
  /\ UNCHANGED result
  /\ IndexOnly

\* RECORD_BLOCK_TABLE.find(keyAt)
IndexFind(keyAt) ==
  /\ RECORD_BLOCK_TABLE # <<>>
  /\ result' = [op |-> "find", keyAt |-> keyAt,
                block |-> RecordBlockFind(RECORD_BLOCK_TABLE, keyAt)]
  /\ UNCHANGED RECORD_BLOCK_TABLE
  /\ IndexOnly

NextIndex ==
  \/ IndexRead
  \/ \E keyAt \in -1..(2 * MaxIndex + 1) : IndexFind(keyAt)

SpecIndex == InitIndex /\ [][NextIndex]_vars

\* C15: in the record block table read_record_block builds, the compressed
\* offsets and the decompressed offsets both increase strictly from each
\* entry to the next, over all num_blocks + 1 entries, whatever sizes the
\* record block index holds.
C15_ColumnsIncrease ==
  RECORD_BLOCK_TABLE # <<>>
     => \A i \in 1..(Len(RECORD_BLOCK_TABLE) - 1) :
           /\ RECORD_BLOCK_TABLE[i][1] < RECORD_BLOCK_TABLE[i + 1][1]
           /\ RECORD_BLOCK_TABLE[i][2] < RECORD_BLOCK_TABLE[i + 1][2]

\* the bytes (in units) of the blocks before block b of the index, compressed
\* and decompressed
CompBefore(b) == Sum([k \in 1..(b - 1) |-> file.record_index[k].comp_size])
DecompBefore(b) == Sum([k \in 1..(b - 1) |-> file.record_index[k].decomp_size])

\* block b of the index as find should describe it
Described(b) ==
  [block_no |-> b - 1,
   comp_offset |-> file.block_pos + CompBefore(b),
   comp_size |-> file.record_index[b].comp_size,
   decomp_offset |-> DecompBefore(b),
   decomp_size |-> file.record_index[b].decomp_size]

\* C19: for an index of one or more blocks, find(keyAt) with keyAt from 0 up
\* to, not including, the decompressed size of all blocks returns the block
\* that contains keyAt, with its number, its place in the file and its
\* sizes; find returns nothing when keyAt is negative or beyond the last
\* entry of the table.
C19_FindContaining ==
  (result.op = "find" /\ Len(file.record_index) >= 1)
     => /\ (result.keyAt >= 0
              /\ result.keyAt < DecompBefore(Len(file.record_index) + 1))
           => \E b \in DOMAIN file.record_index :
                 /\ DecompBefore(b) <= result.keyAt
                 /\ result.keyAt < DecompBefore(b + 1)
                 /\ result.block = Described(b)
        /\ (result.keyAt < 0
              \/ result.keyAt > RECORD_BLOCK_TABLE[Len(RECORD_BLOCK_TABLE)][2])
           => result.block = NoBlock

\* the record offsets of the keywords a scan-mode lookup took as matches
Matched == {Top.slots[k].info.offset : k \in DOMAIN Top.slots}

\* the keywords of the key block reduce locates for the lookup
Located == file.keyBlocks[reduce(KEY_INDEX, Top.adapted).index + 1].entries

\* C22: a scan-mode mdx lookup takes as matches exactly the keywords of the
\* located key block whose adapted key equals the adapted phrase, adapted
\* by the KeyCaseSensitive and StripKey attributes of the dictionary.
C22_MatchesAdapted ==
  (/\ ext = "mdx" /\ Top.kind = "mdx" /\ Top.st = "done" /\ Top.out # "threw"
   /\ Top.offset = UNDEFINED)
     => \A j \in DOMAIN Located :
           (AdaptWith(attrs, Located[j].key) = AdaptWith(attrs, trim(Top.phrase)))
              <=> Located[j].offset \in Matched

\* the list of keywords of the key block a call asked loadKeys for
ListOfBlock(c) == KeyList(SliceKeyBlock(calls[c].kdx.offset), calls[c].kdx.num_entries)

\* C23: whatever lookups and searches came before, the list loadKeys(kdx)
\* resolves with from its cache is the list of block kdx itself, its
\* num_entries keywords with their record offsets, also when two key blocks
\* have the same first word.
C23_CacheCoherent ==
  \A i \in DOMAIN tasks :
     (tasks[i].slot = 0 /\ ~tasks[i].io)
        => tasks[i].list = ListOfBlock(tasks[i].c)

\* C24: in the list loadKeys builds for a key block of m keywords, every
\* keyword but the last, the first one included, has as size the distance
\* to the record offset of the next keyword, and the last has no size.
C24_SizesButLast ==
  _last_keys.set
     => \A j \in DOMAIN _last_keys.list :
           _last_keys.list[j].size =
              IF j < Len(_last_keys.list)
              THEN _last_keys.list[j + 1].offset - _last_keys.list[j].offset
              ELSE UNDEFINED

C30_TableNeverReady ==
  /\ ~KEY_TABLE_ready
  /\ KEY_TABLE = "unused"
  /\ \A c \in DOMAIN calls :
        (calls[c].kind \in {"mdx", "mdd"} /\ calls[c].offset = UNDEFINED
         /\ calls[c].st = "done" /\ calls[c].out = "fulfilled")
           => _last_keys.set

\* a lookup of a keyword has been answered in scan mode
C30_ScanLookupAnswered ==
  /\ Top.kind \in {"mdx", "mdd"} /\ Top.offset = UNDEFINED
  /\ Top.st = "done" /\ Top.out = "fulfilled"
  /\ _last_keys.set
  /\ ~KEY_TABLE_ready

(***************************************************************************)
(* SpecReduce: reduce on key indexes of up to MaxDirectory blocks.  The    *)
(* words are single lower-case letters, so a word is its own adapted form; *)
(* the blocks are sorted, the last word of a block not after the first     *)
(* word of the next one.                                                   *)
(***************************************************************************)
MaxDirectory == 4
Letters == {<<97>>, <<98>>, <<99>>, <<100>>, <<101>>}       \* "a" .. "e"

\* key indexes: the words of the blocks, first and last, in ascending order
Directories ==
  UNION {{[b \in 1..n |->
             [NoKdx EXCEPT !.num_entries = 2, !.first_word = w[2 * b - 1],
                           !.last_word = w[2 * b], !.index = b - 1]] :
            w \in {v \in [1..(2 * n) -> Letters] :
                     \A i \in 1..(2 * n - 1) : ~StrLess(v[i + 1], v[i])}} :
         n \in 0..MaxDirectory}

NoReduced == [op |-> "none", phrase |-> <<>>, kdx |-> NoKdx]

InitReduce ==
  /\ KEY_INDEX \in Directories
  /\ attrs \in AttrSets
  /\ result = NoReduced
  /\ ext = "mdx"
  /\ RECORD_BLOCK_TABLE = <<>>
  /\ KEY_TABLE_ready = FALSE
  /\ KEY_TABLE = "unused"
  /\ MurmurHash3 = "unused"
  /\ file = "unused"
  /\ _last_keys = NoKeys
  /\ calls = [i \in 1..MaxCalls |-> Blank]
  /\ tasks = <<>>
  /\ parse = "opened"
  /\ scan = "unused"

\* findCandidates: kdx = reduce(KEY_INDEX, phrase), phrase adapted
Reduce(phrase) ==
  /\ result' = [op |-> "reduce", phrase |-> _adaptKey(Prim(phrase)).s,
                kdx |-> reduce(KEY_INDEX, _adaptKey(Prim(phrase)).s)]
  /\ UNCHANGED <<ext, attrs, KEY_INDEX, RECORD_BLOCK_TABLE, KEY_TABLE_ready,
                 KEY_TABLE, MurmurHash3, file, _last_keys, calls, tasks, parse, scan>>

NextReduce == \E phrase \in Letters : Reduce(phrase)

SpecReduce == InitReduce /\ [][NextReduce]_vars

\* a block of the key index whose words, first to last, enclose the phrase
Encloses(kdx, phrase) ==
  /\ ~StrLess(phrase, AdaptWith(attrs, kdx.first_word))
  /\ ~StrLess(AdaptWith(attrs, kdx.last_word), phrase)

\* C21: on a sorted key index, for an adapted phrase that lies between the
\* first and the last word of some block, reduce returns a block whose
\* first and last word enclose the phrase.
C21_ReduceContains ==
  (result.op = "reduce"
     /\ \E b \in DOMAIN KEY_INDEX : Encloses(KEY_INDEX[b], result.phrase))
     => Encloses(result.kdx, result.phrase)

(***************************************************************************)
(* SpecDecrypt: decrypt(buf, key) on byte buffers.  buf is the Uint8Array  *)
(* readBlock hands over; ripemd128 is not part of the source, the key of   *)
(* the model is the 16 bytes it returns.                                   *)
(***************************************************************************)
MaxBuf == 17                 \* bytes in a buffer

\* a ^ b and a | b on non-negative integers
RECURSIVE BitXor(_, _)
BitXor(a, b) ==
  IF a = 0 /\ b = 0 THEN 0
  ELSE (((a % 2) + (b % 2)) % 2) + 2 * BitXor(a \div 2, b \div 2)

RECURSIVE BitOr(_, _)
BitOr(a, b) ==
  IF a = 0 /\ b = 0 THEN 0
  ELSE (IF a % 2 = 1 \/ b % 2 = 1 THEN 1 ELSE 0) + 2 * BitOr(a \div 2, b \div 2)

\* a buffer in which each byte is decrypted with the decrypted byte before it
RECURSIVE ChainedLoop(_, _, _, _)
ChainedLoop(buf, key, prev, i) ==
  IF i >= Len(buf) THEN buf
  ELSE LET swapped == BitOr(buf[i + 1] \div 16, buf[i + 1] * 16)
           byte == BitXor(BitXor(BitXor(swapped, prev), i % 256),
                          key[(i % Len(key)) + 1]) % 256
       IN  ChainedLoop([buf EXCEPT ![i + 1] = byte], key, byte, i + 1)

DecryptChained(buf, key) == ChainedLoop(buf, key, 54, 0)

\* the loop of decrypt: byte = buf[i]; swap; xor; prev = buf[i]; buf[i] = byte,
\* the store into the Uint8Array keeping the low 8 bits
RECURSIVE DecryptLoop(_, _, _, _)
DecryptLoop(buf, key, prev, i) ==
  IF i >= Len(buf) THEN buf
  ELSE LET swapped == BitOr(buf[i + 1] \div 16, buf[i + 1] * 16)
           byte == BitXor(BitXor(BitXor(swapped, prev), i % 256),
                          key[(i % Len(key)) + 1])
       IN  DecryptLoop([buf EXCEPT ![i + 1] = byte % 256], key, buf[i + 1], i + 1)

\* decrypt(buf, key), key already passed through ripemd128; prev = 0x36
decrypt(buf, key) == DecryptLoop(buf, key, 54, 0)

\* the buffers and the derived keys of the model
Buffers ==
  {[i \in 1..n |-> (a * i + b) % 256] : n \in 0..MaxBuf, a \in {0, 7, 85}, b \in {0, 54, 255}}

DerivedKeys == {[i \in 1..16 |-> (a * i) % 256] : a \in {0, 1, 37}}

NoDecrypted == [op |-> "none", buf |-> <<>>]

InitDecrypt ==
  /\ \E buf \in Buffers, key \in DerivedKeys : file = [buf |-> buf, key |-> key]
  /\ result = NoDecrypted
  /\ ext = "mdx"
  /\ attrs = NoAttrs
  /\ KEY_INDEX = <<>>
  /\ RECORD_BLOCK_TABLE = <<>>
  /\ KEY_TABLE_ready = FALSE
  /\ KEY_TABLE = "unused"
  /\ MurmurHash3 = "unused"
  /\ _last_keys = NoKeys
  /\ calls = [i \in 1..MaxCalls |-> Blank]
  /\ tasks = <<>>
  /\ parse = "unused"
  /\ scan = "unused"

\* tmp = decryptor(tmp, passkey) in readBlock
Decrypt ==
  /\ result.op = "none"
  /\ result' = [op |-> "decrypt", buf |-> decrypt(file.buf, file.key)]
  /\ UNCHANGED <<ext, attrs, KEY_INDEX, RECORD_BLOCK_TABLE, KEY_TABLE_ready,
                 KEY_TABLE, MurmurHash3, file, _last_keys, calls, tasks, parse, scan>>

NextDecrypt == Decrypt

SpecDecrypt == InitDecrypt /\ [][NextDecrypt]_vars

\* a byte with its two nibbles exchanged
NibbleSwap(b) == (b % 16) * 16 + (b \div 16)

\* C25: byte i of the buffer decrypt returns is nibble_swap(in[i]) xor prev
\* xor (i and 0xFF) xor derived_key[i mod 16], an 8-bit value, where prev is
\* 0x36 for i = 0 and the input byte i - 1 otherwise; the buffer keeps its
\* length, and no other input buffer gives the same output under the key.
C25_DecryptCipher ==
  result.op = "decrypt"
     => /\ Len(result.buf) = Len(file.buf)
        /\ \A i \in 0..(Len(file.buf) - 1) :
              /\ result.buf[i + 1] \in 0..255
              /\ result.buf[i + 1] =
                   BitXor(BitXor(BitXor(NibbleSwap(file.buf[i + 1]),
                                        IF i = 0 THEN 54 ELSE file.buf[i]),
                                 i % 256),
                          file.key[(i % 16) + 1])
        /\ \A other \in Buffers :
              other # file.buf => decrypt(other, file.key) # result.buf

\* a buffer that is longer than the key has been decrypted under a key that
\* is not all zero
C25_LongBufferDecrypted ==
  /\ result.op = "decrypt"
  /\ Len(file.buf) > 16
  /\ file.key[1] # 0
  /\ file.buf[1] # file.buf[2]

(***************************************************************************)
(* SpecText: Scanner.readText on a buffer that holds a text, its NUL       *)
(* terminator and the bytes of the entry after it.  A UTF-16 text is       *)
(* stored little-endian, two bytes per code unit.  The text the decoder    *)
(* returns is kept as the bytes it was given.                              *)
(***************************************************************************)
MaxUnits == 3                \* code units, or bytes, in a text

\* dv.getUint16(offset): big-endian
getUint16(buf, offset) == 256 * buf[offset + 1] + buf[offset + 2]

\* while (dv.getUint16(offset++)) { }: the offset after the loop
RECURSIVE ScanUint16(_, _)
ScanUint16(buf, offset) ==
  IF getUint16(buf, offset) # 0 THEN ScanUint16(buf, offset + 1) ELSE offset + 1

\* while (dv.getUint8(offset++)) { }: the offset after the loop
RECURSIVE ScanUint8(_, _)
ScanUint8(buf, offset) ==
  IF buf[offset + 1] # 0 THEN ScanUint8(buf, offset + 1) ELSE offset + 1

\* _searchTextLen(dv, offset) as config() sets it for attrs.Encoding
_searchTextLen(buf, offset) ==
  IF attrs.Encoding = "UTF-16" THEN ScanUint16(buf, offset) - offset
  ELSE ScanUint8(buf, offset) - offset - 1

\* _bpu: bytes per unit
_bpu == IF attrs.Encoding = "UTF-16" THEN 2 ELSE 1

\* readText(): the bytes decoded and the offset after forward(len + _bpu)
readText(buf, offset) ==
  LET len == _searchTextLen(buf, offset)
  IN  [op |-> "readText", text |-> SubSeq(buf, offset + 1, offset + len),
       offset |-> offset + len + _bpu]

\* code units 0x0061, 0x4E2D, 0x0100 as bytes, and the bytes "A", "B"
CodeUnits == {<<97, 0>>, <<45, 78>>, <<0, 1>>}
SingleBytes == {<<65>>, <<66>>}
UnitsOf(e) == IF e = "UTF-16" THEN CodeUnits ELSE SingleBytes

RECURSIVE Flat(_)
Flat(ss) == IF ss = <<>> THEN <<>> ELSE Head(ss) \o Flat(Tail(ss))

\* the record offset before the text (4 bytes), or nothing, then the text,
\* the terminator and the start of the next entry
TextBuffer(e, lead, units) ==
  [lead |-> lead,
   text |-> Flat(units),
   buf |-> [i \in 1..lead |-> 9] \o Flat(units)
             \o (IF e = "UTF-16" THEN <<0, 0>> ELSE <<0>>) \o <<9, 9, 9, 9>>]

NoText == [op |-> "none", text |-> <<>>, offset |-> 0]

InitText ==
  /\ \E e \in {"UTF-16", "UTF-8"}, lead \in {0, 4}, n \in 0..MaxUnits :
       \E units \in [1..n -> UnitsOf(e)] :
          /\ attrs = [Encoding |-> e]
          /\ file = TextBuffer(e, lead, units)
  /\ result = NoText
  /\ ext = "mdx"
  /\ KEY_INDEX = <<>>
  /\ RECORD_BLOCK_TABLE = <<>>
  /\ KEY_TABLE_ready = FALSE
  /\ KEY_TABLE = "unused"
  /\ MurmurHash3 = "unused"
  /\ _last_keys = NoKeys
  /\ calls = [i \in 1..MaxCalls |-> Blank]
  /\ tasks = <<>>
  /\ parse = "unused"
  /\ scan = "unused"

\* scanner.readText() with the scanner at the start of the text
ReadText ==
  /\ result.op = "none"
  /\ result' = readText(file.buf, file.lead)
  /\ UNCHANGED <<ext, attrs, KEY_INDEX, RECORD_BLOCK_TABLE, KEY_TABLE_ready,
                 KEY_TABLE, MurmurHash3, file, _last_keys, calls, tasks, parse, scan>>

NextText == ReadText

SpecText == InitText /\ [][NextText]_vars

\* C26: readText decodes exactly the bytes of the text before its NUL
\* terminator (two bytes 00 00 after whole code units in UTF-16, one byte
\* 00 in a single-byte encoding) and leaves the scanner just after the
\* terminator, where the next entry starts.
C26_ReadTextToTerminator ==
  result.op = "readText"
     => /\ result.text = file.text
        /\ result.offset = file.lead + Len(file.text) + _bpu
====
